---- MODULE Spec2Model ----
(***************************************************************************)
(* FinPilot MCP server: the configuration resolver (config.py), the        *)
(* gateway client (client.py) and the tool handlers and entry point        *)
(* (server.py), as a state machine.                                        *)
(*                                                                         *)
(* Python values are tagged records, so that None, "", 0 and {} stay       *)
(* distinct and Python's truthiness is computed, not assumed.              *)
(***************************************************************************)
EXTENDS Integers, Sequences, FiniteSets, TLC

VARIABLES settings, environ, client, args, main_pc, exit_code, stderr, stdout,
          transport, calls, frame, conn, raised, ret

vars == <<settings, environ, client, args, main_pc, exit_code, stderr, stdout,
          transport, calls, frame, conn, raised, ret>>

(* ------------------------------------------------------------------ *)
(* Bounds                                                              *)
(* ------------------------------------------------------------------ *)

\* Timeout settings (seconds) are drawn from 0..MaxTimeout.
MaxTimeout == 1

(* ------------------------------------------------------------------ *)
(* Python values                                                       *)
(* ------------------------------------------------------------------ *)

None == [t |-> "None"]
Str(s) == [t |-> "str", v |-> s]
Num(n) == [t |-> "num", v |-> n]
Dict(f) == [t |-> "dict", v |-> f]
List(q) == [t |-> "list", v |-> q]

EmptyMapping == [k \in {} |-> None]

\* bool(x)
Truthy(x) ==
    CASE x.t = "None" -> FALSE
      [] x.t = "str"  -> x.v /= ""
      [] x.t = "num"  -> x.v /= 0
      [] x.t = "dict" -> DOMAIN x.v /= {}
      [] x.t = "list" -> Len(x.v) > 0

\* a or b
Or(a, b) == IF Truthy(a) THEN a ELSE b

\* str(x), as an f-string formats a field
PyStr(x) ==
    CASE x.t = "None" -> "None"
      [] x.t = "str"  -> x.v
      [] x.t = "num"  -> ToString(x.v)

\* d.get(key, default) on a dict
DictGet(d, key, default) == IF key \in DOMAIN d.v THEN d.v[key] ELSE default

\* The result of evaluating an expression: a value, or a raised exception.
Ok(v) == [ok |-> TRUE, value |-> v]
Raise(e) == [ok |-> FALSE, exc |-> e]

(* ------------------------------------------------------------------ *)
(* constants.py                                                        *)
(* ------------------------------------------------------------------ *)

DEFAULT_API_GATEWAY_URL == "https://api.finpilot.ai"

LOCAL_API_GATEWAY_URL == "http://localhost:8000"

ENDPOINTS ==
    [credit_analyze    |-> "/v1/credit/analyze",
     credit_health     |-> "/v1/credit/health",
     portfolio_analyze |-> "/v1/portfolio/analyze",
     loan_optimize     |-> "/v1/loans/optimize",
     financial_plan    |-> "/v1/plan/create"]

(* ------------------------------------------------------------------ *)
(* config.py                                                           *)
(* ------------------------------------------------------------------ *)

\* os.getenv(name, default)
getenv(env, name, default) == IF name \in DOMAIN env THEN env[name] ELSE default

is_local_dev(s) == s.environment = "development"

effective_gateway_url_ConfiguredDefault(s, env) ==
    IF is_local_dev(s)
    THEN getenv(env, "FINPILOT_API_GATEWAY_URL", s.api_gateway_url)
    ELSE s.api_gateway_url

effective_gateway_url(s, env) ==
    IF is_local_dev(s)
    THEN getenv(env, "FINPILOT_API_GATEWAY_URL", LOCAL_API_GATEWAY_URL)
    ELSE s.api_gateway_url

has_auth_NegatedToken(s) == s.api_key /= None \/ s.jwt_token = None

has_auth(s) == s.api_key /= None \/ s.jwt_token /= None

\* Values the environment can give the Settings fields.
CredentialValues(secret) == {None, Str(""), Str(secret)}
EnvironmentTags == {"production", "development"}
TimeoutValues == 0 .. MaxTimeout
EnvironValues ==
    {EmptyMapping, [FINPILOT_API_GATEWAY_URL |-> "http://127.0.0.1:9000"]}

SettingsValues ==
    [api_gateway_url : {DEFAULT_API_GATEWAY_URL},
     api_key         : CredentialValues("key-1"),
     jwt_token       : CredentialValues("jwt-1"),
     environment     : EnvironmentTags,
     request_timeout : TimeoutValues,
     upload_timeout  : TimeoutValues]

(* ------------------------------------------------------------------ *)
(* client.py                                                           *)
(* ------------------------------------------------------------------ *)

\* FinPilotAPIError.__init__
FinPilotAPIError(status_code, message, details) ==
    [type        |-> "FinPilotAPIError",
     status_code |-> status_code,
     message     |-> message,
     details     |-> Or(details, Dict(EmptyMapping)),
     str         |-> "API Error " \o ToString(status_code) \o ": " \o PyStr(message)]

\* FinPilotClient.__init__
FinPilotClient(s, env) ==
    [base_url       |-> effective_gateway_url(s, env),
     timeout        |-> s.request_timeout,
     upload_timeout |-> s.upload_timeout]

BaseHeaders ==
    [h \in {"Content-Type", "User-Agent"} |->
        IF h = "Content-Type" THEN "application/json" ELSE "finpilot-mcp/0.1.0"]

\* headers[name] = value
WithHeader(headers, name, value) ==
    [h \in DOMAIN headers \cup {name} |-> IF h = name THEN value ELSE headers[h]]

_get_headers_BothSchemes(s) ==
    LET h1 == IF Truthy(s.jwt_token)
              THEN WithHeader(BaseHeaders, "Authorization", "Bearer " \o s.jwt_token.v)
              ELSE BaseHeaders
    IN  IF Truthy(s.api_key) THEN WithHeader(h1, "X-API-Key", s.api_key.v) ELSE h1

_get_headers(s) ==
    IF Truthy(s.jwt_token)
    THEN WithHeader(BaseHeaders, "Authorization", "Bearer " \o s.jwt_token.v)
    ELSE IF Truthy(s.api_key)
         THEN WithHeader(BaseHeaders, "X-API-Key", s.api_key.v)
         ELSE BaseHeaders

\* _request, up to the outbound call: the arguments handed to httpx.
_request(self, s, method, endpoint, json, timeout) ==
    [method  |-> method,
     url     |-> self.base_url \o endpoint,
     headers |-> _get_headers(s),
     json    |-> json,
     timeout |-> Or(timeout, Num(self.timeout)).v]

\* Exception classes and their bases (Python built-ins and httpx), as the
\* except clauses test them.
Bases(type) ==
    CASE type = "FinPilotAPIError" -> {"FinPilotAPIError", "Exception"}
      [] type = "ReadTimeout"      -> {"ReadTimeout", "TimeoutException", "TransportError",
                                       "RequestError", "HTTPError", "Exception"}
      [] type = "ConnectTimeout"   -> {"ConnectTimeout", "TimeoutException",
                                       "TransportError", "RequestError", "HTTPError",
                                       "Exception"}
      [] type = "ConnectError"     -> {"ConnectError", "NetworkError", "TransportError",
                                       "RequestError", "HTTPError", "Exception"}
      [] type = "UnsupportedProtocol" -> {"UnsupportedProtocol", "TransportError",
                                          "RequestError", "HTTPError", "Exception"}
      [] type = "JSONDecodeError"  -> {"JSONDecodeError", "ValueError", "Exception"}
      [] type = "AttributeError"   -> {"AttributeError", "Exception"}
      [] type = "RuntimeError"     -> {"RuntimeError", "Exception"}

isinstance(e, class) == class \in Bases(e.type)

\* An HTTP response body as received: no bytes, the encoding of a JSON value,
\* or bytes that are not JSON.
NoContent == [enc |-> "empty"]
JsonText(v) == [enc |-> "json", v |-> v]
NotJson == [enc |-> "invalid"]

\* response.content (bytes) is truthy
HasContent(response) == response.content.enc /= "empty"

\* response.json()
ResponseJson(response) ==
    IF response.content.enc = "json"
    THEN Ok(response.content.v)
    ELSE Raise([type |-> "JSONDecodeError",
                str  |-> "Expecting value: line 1 column 1 (char 0)"])

\* error_data.get("message", "API request failed")
ErrorMessage(error_data) ==
    IF error_data.t = "dict"
    THEN Ok(DictGet(error_data, "message", Str("API request failed")))
    ELSE Raise([type |-> "AttributeError",
                str  |-> "'" \o error_data.t \o "' object has no attribute 'get'"])

_request_error_data_Unguarded(response) == ResponseJson(response)

\* error_data = response.json() if response.content else {}
_request_error_data(response) ==
    IF HasContent(response) THEN ResponseJson(response) ELSE Ok(Dict(EmptyMapping))

\* _request, the body of the try block once client.request has ended:
\* `outcome` is the response it returned or the exception it raised.
_request_try(outcome) ==
    IF outcome.kind = "raise"
    THEN Raise(outcome.exc)
    ELSE LET response == outcome.response IN
         IF response.status_code >= 400
         THEN LET error_data == _request_error_data(response) IN
              IF ~error_data.ok
              THEN error_data
              ELSE LET message == ErrorMessage(error_data.value) IN
                   IF ~message.ok
                   THEN message
                   ELSE Raise(FinPilotAPIError(response.status_code, message.value,
                                               error_data.value))
         ELSE ResponseJson(response)

_request_except_RequestErrorFirst(r) ==
    IF r.ok
    THEN r
    ELSE IF isinstance(r.exc, "RequestError")
         THEN Raise(FinPilotAPIError(503, Str("Failed to connect to API"),
                                     Dict([error |-> Str(r.exc.str)])))
         ELSE IF isinstance(r.exc, "TimeoutException")
              THEN Raise(FinPilotAPIError(504, Str("Request timeout"),
                                          Dict([error |-> Str(r.exc.str)])))
              ELSE r

\* _request, the except clauses in their order.
_request_except(r) ==
    IF r.ok
    THEN r
    ELSE IF isinstance(r.exc, "TimeoutException")
         THEN Raise(FinPilotAPIError(504, Str("Request timeout"),
                                     Dict([error |-> Str(r.exc.str)])))
         ELSE IF isinstance(r.exc, "RequestError")
              THEN Raise(FinPilotAPIError(503, Str("Failed to connect to API"),
                                          Dict([error |-> Str(r.exc.str)])))
              ELSE r

\* _request, from the end of the outbound call to its return or raise.
_request_result(outcome) == _request_except(_request_try(outcome))

\* The API methods: each yields the arguments of its one outbound call.
client_analyze_credit_report(self, s, pdf_base64, bureau) ==
    _request(self, s, "POST", ENDPOINTS.credit_analyze,
             Dict([pdf_base64 |-> pdf_base64, bureau |-> bureau]),
             Num(self.upload_timeout))

client_get_credit_health(self, s, user_id) ==
    LET params == IF Truthy(user_id) THEN Dict([user_id |-> user_id])
                                     ELSE Dict(EmptyMapping)
    IN  _request(self, s, "GET", ENDPOINTS.credit_health, params, None)

client_analyze_portfolio(self, s, cas_pdf_base64, portfolio_data) ==
    _request(self, s, "POST", ENDPOINTS.portfolio_analyze,
             Dict([cas_pdf_base64 |-> cas_pdf_base64, portfolio_data |-> portfolio_data]),
             Num(self.upload_timeout))

client_optimize_loans_OmitAbsent(self, s, loans, user_id) ==
    _request(self, s, "POST", ENDPOINTS.loan_optimize,
             Dict([k \in {x \in {"loans", "user_id"} :
                            (IF x = "loans" THEN loans ELSE user_id) /= None} |->
                      IF k = "loans" THEN loans ELSE user_id]),
             None)

client_optimize_loans(self, s, loans, user_id) ==
    _request(self, s, "POST", ENDPOINTS.loan_optimize,
             Dict([loans |-> loans, user_id |-> user_id]), None)

client_create_financial_plan(self, s, goals, current_situation, user_id) ==
    _request(self, s, "POST", ENDPOINTS.financial_plan,
             Dict([goals |-> goals, current_situation |-> current_situation,
                   user_id |-> user_id]),
             None)

(* ------------------------------------------------------------------ *)
(* server.py: the tool handlers                                        *)
(* ------------------------------------------------------------------ *)

\* The tool invocations the host runtime has in progress.
CallIds == {"a", "b"}

\* What a handler does with the outcome of its client call: it returns an
\* envelope, or the exception leaves it.
Return(v) == [kind |-> "return", value |-> v]
Propagate(e) == [kind |-> "raise", exc |-> e]

\* str(e)
str_of_exc(e) == e.str

ToolEnvelope_TypedOnly(r) ==
    IF r.ok
    THEN Return([status |-> "success", data |-> r.value])
    ELSE IF isinstance(r.exc, "FinPilotAPIError")
         THEN Return([status |-> "error", error |-> r.exc.str])
         ELSE Propagate(r.exc)

\* try: result = await client.<op>(...); return success
\* except Exception as e: return error
ToolEnvelope(r) ==
    IF r.ok
    THEN Return([status |-> "success", data |-> r.value])
    ELSE IF isinstance(r.exc, "Exception")
         THEN Return([status |-> "error", error |-> str_of_exc(r.exc)])
         ELSE Propagate(r.exc)

\* A slot that holds nothing yet.
Nothing == [kind |-> "none"]

FrameOf_Shared(i) == "a"

\* Where the local variables of call i's _request coroutine live: in the
\* coroutine's own frame.
FrameOf(i) == i

\* Arguments the host passes to the tools.
PdfValues == {Str("JVBERi0xLjQ=")}
BureauValues == {None, Str("cibil")}
UserIdValues == {None, Str("user-1")}
HealthUserIdValues == {None, Str(""), Str("user-1")}
CasPdfValues == {None, Str("JVBERi0xLjc=")}
PortfolioDataValues == {None, Dict([holdings |-> Str("NIFTYBEES")])}
LoansValues == {None, List(<<Dict([apr |-> Num(14)])>>)}
GoalsValues == {List(<<Dict([name |-> Str("retirement")])>>)}
SituationValues == {Dict([income |-> Num(100)])}

\* Handler entry of call i up to the outbound call: the client method has
\* computed url, headers, body and timeout into the coroutine's frame.
Enter(i, tool, params, locals) ==
    /\ main_pc = "serving"
    /\ calls[i].pc = "idle"
    /\ calls' = [calls EXCEPT ![i] = [pc |-> "built", tool |-> tool, params |-> params]]
    /\ frame' = [frame EXCEPT ![FrameOf(i)] = locals]
    /\ UNCHANGED <<settings, environ, client, args, main_pc, exit_code, stderr, stdout,
                   transport, conn, raised, ret>>

analyze_credit_report(i) ==
    \E pdf_base64 \in PdfValues, bureau \in BureauValues :
        Enter(i, "analyze_credit_report",
              [pdf_base64 |-> pdf_base64, bureau |-> bureau],
              client_analyze_credit_report(client, settings, pdf_base64, bureau))

get_credit_health(i) ==
    \E user_id \in HealthUserIdValues :
        Enter(i, "get_credit_health", [user_id |-> user_id],
              client_get_credit_health(client, settings, user_id))

analyze_portfolio(i) ==
    \E cas_pdf_base64 \in CasPdfValues, portfolio_data \in PortfolioDataValues :
        Enter(i, "analyze_portfolio",
              [cas_pdf_base64 |-> cas_pdf_base64, portfolio_data |-> portfolio_data],
              client_analyze_portfolio(client, settings, cas_pdf_base64, portfolio_data))

optimize_loans(i) ==
    \E loans \in LoansValues, user_id \in UserIdValues :
        Enter(i, "optimize_loans", [loans |-> loans, user_id |-> user_id],
              client_optimize_loans(client, settings, loans, user_id))

create_financial_plan(i) ==
    \E goals \in GoalsValues, current_situation \in SituationValues,
       user_id \in UserIdValues :
        Enter(i, "create_financial_plan",
              [goals |-> goals, current_situation |-> current_situation,
               user_id |-> user_id],
              client_create_financial_plan(client, settings, goals, current_situation,
                                           user_id))

\* async with httpx.AsyncClient() as client: await client.request(...)
\* Call i opens its own connection context and issues its one request.
Send(i) ==
    /\ calls[i].pc = "built"
    /\ calls' = [calls EXCEPT ![i].pc = "awaiting"]
    /\ conn' = [conn EXCEPT ![i] = [request |-> frame[FrameOf(i)], outcome |-> Nothing]]
    /\ UNCHANGED <<settings, environ, client, args, main_pc, exit_code, stderr, stdout,
                   transport, frame, raised, ret>>

\* What the outbound call can end with.
Response(status_code, content) ==
    [kind |-> "response", response |-> [status_code |-> status_code, content |-> content]]
Raised(type, text) == [kind |-> "raise", exc |-> [type |-> type, str |-> text]]

Outcomes ==
    { Response(200, JsonText(Dict([score |-> Num(742)]))),
      Response(200, JsonText(List(<<Str("LAMF")>>))),
      Response(200, NotJson),
      Response(404, JsonText(Dict([message |-> Str("not found")]))),
      Response(422, JsonText(Dict([message |-> None]))),
      Response(400, JsonText(Dict([detail |-> Str("bad request")]))),
      Response(400, JsonText(Dict(EmptyMapping))),
      Response(500, NoContent),
      Response(502, JsonText(List(<<Str("upstream")>>))),
      Response(503, NotJson),
      Raised("ReadTimeout", "timed out"),
      Raised("ConnectTimeout", "timed out"),
      Raised("ConnectError", "All connection attempts failed"),
      Raised("UnsupportedProtocol", "Request URL is missing an 'http://' or 'https://' protocol."),
      Raised("RuntimeError", "Event loop is closed") }

\* The outbound call of call i ends; _request classifies the outcome and the
\* handler returns.
Respond(i) ==
    /\ calls[i].pc = "awaiting"
    /\ \E outcome \in Outcomes :
        LET r == _request_result(outcome) IN
        /\ conn' = [conn EXCEPT ![i].outcome = outcome]
        /\ raised' = [raised EXCEPT ![i] = IF r.ok THEN Nothing ELSE r.exc]
        /\ ret' = [ret EXCEPT ![i] = ToolEnvelope(r)]
    /\ calls' = [calls EXCEPT ![i].pc = "done"]
    /\ UNCHANGED <<settings, environ, client, args, main_pc, exit_code, stderr, stdout,
                   transport, frame>>

(* ------------------------------------------------------------------ *)
(* server.py: main                                                     *)
(* ------------------------------------------------------------------ *)

ArgsValues ==
    [mode            : {"stdio", "http"},
     api_gateway_url : {None, Str("http://gw.test:8080")},
     environment     : {None, Str("production"), Str("staging"), Str("development")},
     host            : {"0.0.0.0"},
     port            : {8002}]

\* Apply non-sensitive CLI overrides to settings
ApplyOverrides(s, a) ==
    LET s1 == IF Truthy(a.api_gateway_url)
              THEN [s EXCEPT !.api_gateway_url = a.api_gateway_url.v]
              ELSE s
    IN  IF Truthy(a.environment)
        THEN [s1 EXCEPT !.environment = a.environment.v]
        ELSE s1

NoAuthDiagnostic ==
    << "ERROR: No authentication configured!",
       "Set FINPILOT_API_KEY or FINPILOT_JWT_TOKEN environment variable.",
       "\nExample:",
       "  export FINPILOT_API_KEY=your-api-key-here",
       "  python -m finpilot_mcp.server --mode stdio" >>

StdioBanner(s, env) ==
    << "[FinPilot MCP] Starting in STDIO mode",
       "[FinPilot MCP] Gateway: " \o effective_gateway_url(s, env),
       "[FinPilot MCP] Environment: " \o s.environment >>

HttpBanner(s, env, a) ==
    LET at == "http://" \o a.host \o ":" \o ToString(a.port) IN
    << "[FinPilot MCP] Starting HTTP server on " \o at,
       "[FinPilot MCP] Gateway URL: " \o effective_gateway_url(s, env),
       "[FinPilot MCP] Environment: " \o s.environment,
       "[FinPilot MCP] Docs: " \o at \o "/docs" >>

main ==
    /\ main_pc = "start"
    /\ LET s == ApplyOverrides(settings, args) IN
       /\ settings' = s
       /\ IF ~has_auth(s)
          THEN /\ stderr' = stderr \o NoAuthDiagnostic
               /\ exit_code' = Num(1)
               /\ main_pc' = "exited"
               /\ UNCHANGED <<stdout, transport>>
          ELSE IF args.mode = "stdio"
               THEN /\ stderr' = stderr \o StdioBanner(s, environ)
                    /\ transport' = "stdio"
                    /\ main_pc' = "serving"
                    /\ UNCHANGED <<stdout, exit_code>>
               ELSE /\ stdout' = stdout \o HttpBanner(s, environ, args)
                    /\ transport' = "http"
                    /\ main_pc' = "serving"
                    /\ UNCHANGED <<stderr, exit_code>>
    /\ UNCHANGED <<environ, client, args, calls, frame, conn, raised, ret>>

(* ------------------------------------------------------------------ *)
(* The process                                                         *)
(* ------------------------------------------------------------------ *)

\* The modules are imported: settings = Settings() and client =
\* FinPilotClient() exist, main() has not run, no tool is in progress.
Init ==
    /\ settings \in SettingsValues
    /\ environ \in EnvironValues
    /\ client = FinPilotClient(settings, environ)
    /\ args \in ArgsValues
    /\ main_pc = "start"
    /\ exit_code = None
    /\ stderr = <<>>
    /\ stdout = <<>>
    /\ transport = "none"
    /\ calls = [i \in CallIds |-> [pc |-> "idle"]]
    /\ frame = [i \in CallIds |-> Nothing]
    /\ conn = [i \in CallIds |-> Nothing]
    /\ raised = [i \in CallIds |-> Nothing]
    /\ ret = [i \in CallIds |-> Nothing]

Tool(i) ==
    \/ analyze_credit_report(i)
    \/ get_credit_health(i)
    \/ analyze_portfolio(i)
    \/ optimize_loans(i)
    \/ create_financial_plan(i)
    \/ Send(i)
    \/ Respond(i)

\* The host runs one tool invocation at a time.
Next == main \/ Tool("a")

Spec == Init /\ [][Next]_vars

\* The host runs two tool invocations concurrently, on one configuration.
InitConcurrent ==
    /\ Init
    /\ settings.api_key = Str("key-1")
    /\ settings.jwt_token = None
    /\ settings.environment = "production"
    /\ settings.request_timeout = MaxTimeout
    /\ environ = EmptyMapping
    /\ args.api_gateway_url = None
    /\ args.environment = None

NextConcurrent == main \/ \E i \in CallIds : Tool(i)

SpecConcurrent == InitConcurrent /\ [][NextConcurrent]_vars

(* ------------------------------------------------------------------ *)
(* Properties                                                          *)
(* ------------------------------------------------------------------ *)

Done(i) == calls[i].pc = "done"
Sent(i) == calls[i].pc \in {"awaiting", "done"}
HttpOutcome(i) == conn[i].outcome.kind = "response"

\* C1: every finished tool invocation has returned exactly one envelope and
\* raised nothing to the host: {status: "success", data: P}, P the remote JSON
\* body as received, when the response has status < 400 and valid JSON, and
\* {status: "error", error: <message>} for every other outcome; an invocation
\* that has not finished has returned nothing.
C1_EnvelopeForEveryOutcome ==
    \A i \in CallIds :
        IF Done(i)
        THEN /\ ret[i].kind = "return"
             /\ IF /\ HttpOutcome(i)
                   /\ conn[i].outcome.response.status_code < 400
                   /\ conn[i].outcome.response.content.enc = "json"
                THEN /\ ret[i].value =
                          [status |-> "success",
                           data   |-> conn[i].outcome.response.content.v]
                     /\ raised[i] = Nothing
                ELSE /\ DOMAIN ret[i].value = {"status", "error"}
                     /\ ret[i].value.status = "error"
                     /\ raised[i] /= Nothing
                     /\ ret[i].value.error = raised[i].str
        ELSE ret[i] = Nothing

\* An unexpected (untyped) error was turned into the error envelope.
C1_Witness ==
    /\ Done("a")
    /\ calls["a"].tool = "create_financial_plan"
    /\ conn["a"].outcome = Response(200, NotJson)
    /\ ret["a"] = Return([status |-> "error",
                          error  |-> "Expecting value: line 1 column 1 (char 0)"])

\* C2: a response with status S >= 400 whose body is empty or a JSON object
\* yields {status: "error", error: "API Error S: M"}, M the body's "message"
\* field when present and "API request failed" otherwise; the typed error
\* carries S and the parsed body (the empty mapping for an empty body).
C2_RemoteRejection ==
    \A i \in CallIds :
        (/\ Done(i)
         /\ HttpOutcome(i)
         /\ conn[i].outcome.response.status_code >= 400
         /\ \/ conn[i].outcome.response.content.enc = "empty"
            \/ /\ conn[i].outcome.response.content.enc = "json"
               /\ conn[i].outcome.response.content.v.t = "dict")
        => LET S == conn[i].outcome.response.status_code
               body == IF conn[i].outcome.response.content.enc = "empty"
                       THEN EmptyMapping
                       ELSE conn[i].outcome.response.content.v.v
               M == IF "message" \in DOMAIN body
                    THEN PyStr(body["message"])
                    ELSE "API request failed"
           IN  /\ ret[i] = Return([status |-> "error",
                                   error  |-> "API Error " \o ToString(S) \o ": " \o M])
               /\ raised[i].type = "FinPilotAPIError"
               /\ raised[i].status_code = S
               /\ raised[i].details = Dict(body)

\* Status 500 with an empty body gave the generic fallback message.
C2_Witness ==
    /\ Done("a")
    /\ conn["a"].outcome = Response(500, NoContent)
    /\ ret["a"] = Return([status |-> "error",
                          error  |-> "API Error 500: API request failed"])
    /\ raised["a"].details = Dict(EmptyMapping)

\* C3: a timed-out request yields the typed error 504 "Request timeout", any
\* other transport failure the typed error 503 "Failed to connect to API";
\* details hold the failure's description, and nothing escapes unhandled.
C3_TransportFailures ==
    \A i \in CallIds :
        (Done(i) /\ conn[i].outcome.kind = "raise")
        => LET e == conn[i].outcome.exc IN
           /\ e.type \in {"ReadTimeout", "ConnectTimeout"} =>
                /\ raised[i].type = "FinPilotAPIError"
                /\ raised[i].status_code = 504
                /\ raised[i].message = Str("Request timeout")
                /\ raised[i].details = Dict([error |-> Str(e.str)])
                /\ ret[i] = Return([status |-> "error",
                                    error  |-> "API Error 504: Request timeout"])
           /\ e.type \in {"ConnectError", "UnsupportedProtocol"} =>
                /\ raised[i].type = "FinPilotAPIError"
                /\ raised[i].status_code = 503
                /\ raised[i].message = Str("Failed to connect to API")
                /\ raised[i].details = Dict([error |-> Str(e.str)])
                /\ ret[i] = Return([status |-> "error",
                                    error  |-> "API Error 503: Failed to connect to API"])

\* A request timed out and was reported as 504.
C3_Witness ==
    /\ Done("a")
    /\ conn["a"].outcome = Raised("ReadTimeout", "timed out")
    /\ raised["a"].status_code = 504

\* A credential that _get_headers can send: a non-empty string.
Configured(v) == v /= None /\ v /= Str("")

\* C4: every outbound request carries Content-Type application/json and at
\* most one authentication header: Authorization Bearer (and no X-API-Key)
\* when a bearer token is configured, X-API-Key only when an API key is
\* configured and no bearer token is, neither when neither is configured.
C4_OneAuthHeader ==
    \A i \in CallIds :
        Sent(i)
        => LET h == conn[i].request.headers IN
           /\ "Content-Type" \in DOMAIN h
           /\ h["Content-Type"] = "application/json"
           /\ ~({"Authorization", "X-API-Key"} \subseteq DOMAIN h)
           /\ IF Configured(settings.jwt_token)
              THEN /\ "Authorization" \in DOMAIN h
                   /\ h["Authorization"] = "Bearer " \o settings.jwt_token.v
                   /\ "X-API-Key" \notin DOMAIN h
              ELSE IF Configured(settings.api_key)
                   THEN /\ "X-API-Key" \in DOMAIN h
                        /\ h["X-API-Key"] = settings.api_key.v
                        /\ "Authorization" \notin DOMAIN h
                   ELSE /\ "Authorization" \notin DOMAIN h
                        /\ "X-API-Key" \notin DOMAIN h

\* Both credentials are configured and the request went out with the bearer
\* token alone.
C4_Witness ==
    /\ Sent("a")
    /\ Configured(settings.jwt_token)
    /\ Configured(settings.api_key)
    /\ conn["a"].request.headers["Authorization"] = "Bearer jwt-1"
    /\ "X-API-Key" \notin DOMAIN conn["a"].request.headers

UploadTools == {"analyze_credit_report", "analyze_portfolio"}

\* C5: the timeout of the outbound call is the upload timeout for
\* analyze_credit_report and analyze_portfolio and the standard timeout for
\* the other three tools, for every configured pair of values, zero included.
C5_TimeoutSelection ==
    \A i \in CallIds :
        Sent(i)
        => conn[i].request.timeout =
               IF calls[i].tool \in UploadTools
               THEN settings.upload_timeout
               ELSE settings.request_timeout

EndpointOf(tool) ==
    CASE tool = "analyze_credit_report" -> "/v1/credit/analyze"
      [] tool = "get_credit_health"     -> "/v1/credit/health"
      [] tool = "analyze_portfolio"     -> "/v1/portfolio/analyze"
      [] tool = "optimize_loans"        -> "/v1/loans/optimize"
      [] tool = "create_financial_plan" -> "/v1/plan/create"

\* The lines main() printed at startup.
Printed == {stderr[n] : n \in DOMAIN stderr} \cup {stdout[n] : n \in DOMAIN stdout}

\* C6: every outbound request goes to the effective gateway URL of the
\* settings as main() overrode them (the URL main() reported at startup)
\* followed by the operation's endpoint path.
C6_OverridesReachTheClient ==
    \A i \in CallIds :
        Sent(i)
        => LET u == effective_gateway_url(settings, environ) IN
           /\ \/ ("[FinPilot MCP] Gateway: " \o u) \in Printed
              \/ ("[FinPilot MCP] Gateway URL: " \o u) \in Printed
           /\ conn[i].request.url = u \o EndpointOf(calls[i].tool)

\* C7: when neither credential is configured as main() runs, main prints a
\* diagnostic to the error stream and exits with a non-zero status before a
\* transport is started; serving is never reached without a credential, in
\* either mode and with any overrides.
C7_NoCredentialsIsFatal ==
    /\ (main_pc /= "start" /\ settings.api_key = None /\ settings.jwt_token = None)
       => /\ main_pc = "exited"
          /\ exit_code.t = "num"
          /\ exit_code.v /= 0
          /\ stderr = NoAuthDiagnostic
          /\ transport = "none"
    /\ (main_pc = "serving" \/ transport /= "none" \/ \E i \in CallIds : calls[i].pc /= "idle")
       => /\ settings.api_key /= None \/ settings.jwt_token /= None
          /\ main_pc = "serving"
          /\ exit_code = None

\* main() was started in HTTP mode with both overrides and no credential,
\* and exited.
C7_Witness ==
    /\ main_pc = "exited"
    /\ args.mode = "http"
    /\ args.api_gateway_url /= None
    /\ args.environment /= None
    /\ settings.api_key = None
    /\ settings.jwt_token = None
    /\ exit_code = Num(1)

ParamKeys(tool) ==
    CASE tool = "analyze_credit_report" -> {"pdf_base64", "bureau"}
      [] tool = "get_credit_health"     -> {"user_id"}
      [] tool = "analyze_portfolio"     -> {"cas_pdf_base64", "portfolio_data"}
      [] tool = "optimize_loans"        -> {"loans", "user_id"}
      [] tool = "create_financial_plan" -> {"goals", "current_situation", "user_id"}

\* The body holds every parameter key of the tool, an absent one as null.
AllKeysSent(i) ==
    /\ conn[i].request.json.t = "dict"
    /\ DOMAIN conn[i].request.json.v = ParamKeys(calls[i].tool)
    /\ \A k \in ParamKeys(calls[i].tool) :
           conn[i].request.json.v[k] = calls[i].params[k]

\* C8 as stated: for each of the five operations the outbound JSON body
\* holds every parameter key of the operation, an absent optional parameter
\* as an explicit null.
C8_EveryKeyAlwaysSent == \A i \in CallIds : Sent(i) => AllKeysSent(i)

\* C8 as amended: analyze_credit_report, analyze_portfolio, optimize_loans and
\* create_financial_plan send every parameter key, an absent one as null;
\* get_credit_health sends {user_id} only for a non-empty user_id and the
\* empty object otherwise.
C8_KeysSentPerOperation ==
    \A i \in CallIds :
        Sent(i)
        => IF calls[i].tool = "get_credit_health"
           THEN conn[i].request.json =
                    IF calls[i].params.user_id \in {None, Str("")}
                    THEN Dict(EmptyMapping)
                    ELSE Dict([user_id |-> calls[i].params.user_id])
           ELSE AllKeysSent(i)

\* optimize_loans went out with both of its parameters absent, as nulls.
C8_Witness ==
    /\ Sent("a")
    /\ calls["a"].tool = "optimize_loans"
    /\ calls["a"].params = [loans |-> None, user_id |-> None]
    /\ conn["a"].request.json = Dict([loans |-> None, user_id |-> None])

\* The base URL the rule of C9 gives.
ResolvedUrl ==
    IF settings.environment = "development"
    THEN IF "FINPILOT_API_GATEWAY_URL" \in DOMAIN environ
         THEN environ["FINPILOT_API_GATEWAY_URL"]
         ELSE "http://localhost:8000"
    ELSE settings.api_gateway_url

\* C9: the effective gateway URL is, under the tag "development", the value
\* of FINPILOT_API_GATEWAY_URL when set and http://localhost:8000 otherwise,
\* and under every other tag the configured gateway URL: it is the URL the
\* client is built with from the settings at import, and the URL main()
\* reports from the settings it has overridden.
C9_EffectiveGatewayUrl ==
    /\ main_pc = "start" => client.base_url = ResolvedUrl
    /\ transport = "stdio" => stderr[2] = "[FinPilot MCP] Gateway: " \o ResolvedUrl
    /\ transport = "http" => stdout[2] = "[FinPilot MCP] Gateway URL: " \o ResolvedUrl

\* Development tag with the override variable unset: the local default, and
\* not the configured URL, was reported.
C9_Witness ==
    /\ transport = "stdio"
    /\ settings.environment = "development"
    /\ environ = EmptyMapping
    /\ settings.api_gateway_url = "http://gw.test:8080"
    /\ stderr[2] = "[FinPilot MCP] Gateway: http://localhost:8000"

\* The arguments of the outbound call that a tool's own parameters determine.
OwnRequest(i) ==
    LET p == calls[i].params IN
    CASE calls[i].tool = "analyze_credit_report" ->
            client_analyze_credit_report(client, settings, p.pdf_base64, p.bureau)
      [] calls[i].tool = "get_credit_health" ->
            client_get_credit_health(client, settings, p.user_id)
      [] calls[i].tool = "analyze_portfolio" ->
            client_analyze_portfolio(client, settings, p.cas_pdf_base64, p.portfolio_data)
      [] calls[i].tool = "optimize_loans" ->
            client_optimize_loans(client, settings, p.loans, p.user_id)
      [] calls[i].tool = "create_financial_plan" ->
            client_create_financial_plan(client, settings, p.goals,
                                         p.current_situation, p.user_id)

\* Each call's request is the one its own parameters determine and its
\* envelope the one its own response determines.
OwnRequestAndResult ==
    \A i \in CallIds :
        /\ calls[i].pc /= "idle" => frame[i] = OwnRequest(i)
        /\ Sent(i) => conn[i].request = OwnRequest(i)
        /\ Done(i) => ret[i] = ToolEnvelope(_request_result(conn[i].outcome))

\* A step of one call leaves the other call's state, the settings and the
\* client as they were.
StepsAreIsolated ==
    \A i \in CallIds :
        calls'[i] /= calls[i]
        => /\ settings' = settings
           /\ client' = client
           /\ environ' = environ
           /\ \A j \in CallIds \ {i} :
                /\ calls'[j] = calls[j]
                /\ frame'[j] = frame[j]
                /\ conn'[j] = conn[j]
                /\ raised'[j] = raised[j]
                /\ ret'[j] = ret[j]

\* C10: under any interleaving of two concurrent tool invocations, each sends
\* the request (URL, body, timeout) of its own parameters and returns the
\* envelope of its own response; no step of one call changes what the other
\* holds or the configuration both read.
C10_ConcurrentCallsAreIsolated == []OwnRequestAndResult /\ [][StepsAreIsolated]_vars

\* Two different tools are in flight at once, each with its own request.
C10_Witness ==
    /\ calls["a"].pc = "awaiting"
    /\ calls["b"].pc = "done"
    /\ calls["a"].tool = "analyze_credit_report"
    /\ calls["b"].tool = "get_credit_health"
    /\ frame["b"] /= frame["a"]
    /\ conn["a"].request.url = "https://api.finpilot.ai/v1/credit/analyze"
    /\ conn["b"].request.url = "https://api.finpilot.ai/v1/credit/health"
    /\ ret["b"].value.status = "success"

\* The outcomes C11 is about: a response with status >= 400, a timeout, a
\* transport failure.
RemoteFailure(i) ==
    \/ /\ HttpOutcome(i)
       /\ conn[i].outcome.response.status_code >= 400
    \/ /\ conn[i].outcome.kind = "raise"
       /\ conn[i].outcome.exc.type \in
              {"ReadTimeout", "ConnectTimeout", "ConnectError", "UnsupportedProtocol"}

\* C11: every error _request raises for a remote outcome is a typed
\* FinPilotAPIError: for a response with status >= 400, whatever its body
\* (empty, a JSON object, other JSON, not JSON), the error's status_code is the
\* response's status; no other exception type leaves the client for a remote
\* rejection, a timeout or a transport failure.
C11_OnlyTypedErrorsLeaveTheClient ==
    \A i \in CallIds :
        (Done(i) /\ RemoteFailure(i))
        => /\ raised[i] /= Nothing
           /\ raised[i].type = "FinPilotAPIError"
           /\ HttpOutcome(i)
              => raised[i].status_code = conn[i].outcome.response.status_code

AuthHeaders(h) == DOMAIN h \cap {"Authorization", "X-API-Key"}

\* C12: has_auth and _get_headers agree on what a configured credential is:
\* when main() refuses to start, _get_headers would add no authentication
\* header, and once the server serves, every outbound request carries exactly
\* one of Authorization and X-API-Key.
C12_StartupCheckMatchesHeaders ==
    /\ main_pc = "exited" => AuthHeaders(_get_headers(settings)) = {}
    /\ \A i \in CallIds :
           Sent(i) => Cardinality(AuthHeaders(conn[i].request.headers)) = 1

====
